---- MODULE Spec2Model ----
(***************************************************************************)
(* A model of gpt-from-scratch: the GPT model of gpt.py (causal attention  *)
(* head, block construction, autoregressive generate) and the training     *)
(* program of train.py (get_batch, estimate_loss, checkpoint save / load,  *)
(* main).                                                                  *)
(*                                                                         *)
(* Tensors are modelled by their shape and by the part of their content    *)
(* the control flow and the masks decide: token ids are integers, an       *)
(* attention score is "-inf" or "fin"(ite), an attention weight is "zero", *)
(* "pos"(itive), "any" (dropped at random or kept and rescaled) or "nan".  *)
(* The parameters of the model are represented by the history of optimizer *)
(* updates that produced them: the sequence of loop indices i whose        *)
(* optim.step() was applied.                                               *)
(***************************************************************************)
EXTENDS Integers, Sequences, FiniteSets, TLC

(***************************************************************************)
(* Program constants kept at their source value.                           *)
(***************************************************************************)
NUM_LAYERS == 6
NUM_HEADS == 6
EMBED_SIZE == 384

(***************************************************************************)
(* Program constants scaled down so that the state space stays finite and  *)
(* small.  gpt.py:7 sets SEQ_LEN = 256; train.py:18-19 set                 *)
(* EVAL_INTERVAL = 1000 and EVAL_ITERS = 100; train.py:147 passes the      *)
(* literal 300 to generate (GENERATE_TOKENS here).  BATCH_SIZE is imported *)
(* from gpt by train.py:5 but gpt.py does not define it; the model takes   *)
(* it as a positive configuration value.                                   *)
(***************************************************************************)
SEQ_LEN == 2
EVAL_INTERVAL == 2
EVAL_ITERS == 1
GENERATE_TOKENS == 2
BATCH_SIZE == 2

(***************************************************************************)
(* Bounds of the model.                                                    *)
(***************************************************************************)
VocabSize == 2        \* tokenizer.get_vocab_size()
MaxNewTokens == 2     \* largest max_new_tokens given to generate directly
MaxRows == 2          \* largest batch dimension B of a context given to generate
MaxContext == 4       \* longest initial context given to generate
MaxStream == 5        \* longest token stream of a split handed to get_batch
MaxEmbed == 8         \* largest embedding width tried at construction
MaxHeads == 4         \* largest head count tried at construction
MaxEpochs == 3        \* largest --epochs
MaxInterval == 2      \* largest --checkpoint-interval
MaxGenerate == 2      \* largest --generate
MaxRuns == 2          \* number of successive runs of the program

TRAIN == "train"
EVAL == "eval"
Splits == <<TRAIN, EVAL>>

Vocab == 0 .. (VocabSize - 1)

VARIABLES
    \* the model (gpt.py)
    training,        \* nn.Module.training of the GPT model
    att,             \* <<>> or <<r>>: what the last Head.forward computed
    \* GPT.generate
    idx,             \* the running context, a sequence of B rows
    ctx0,            \* the idx argument generate was called with
    max_new_tokens,  \* the max_new_tokens argument
    it,              \* completed iterations of the for loop
    gpc,             \* "idle", "loop", "returned", "raised"
    \* get_batch
    DATA,            \* split -> token stream
    split,           \* the split argument of the last / pending call
    ix, xb, yb,      \* sampled offsets, inputs and targets
    bpc,             \* "idle", "call", "returned", "raised"
    \* construction of the model
    cfg,             \* [EMBED_SIZE, NUM_HEADS]: the module-level configuration
    blocks,          \* the Blocks built so far
    cpc,             \* "idle", "init", "constructed", "raised", "forward_ok", "forward_raised"
    \* main of train.py
    args,            \* the parsed command line
    pc,              \* position in main
    err,             \* the exception that ended the run, "" if none
    files,           \* paths that exist on disk
    ckpt,            \* content of the checkpoint file
    params,          \* model parameters: history of applied updates
    optim_steps,     \* optimizer state: number of steps taken
    epoch,           \* main's epoch variable (start of the loop)
    loss,            \* main's loss variable: "inf" or "fin"
    i,               \* the loop variable of the training loop
    est,             \* <<>> or <<[s, k]>>: position inside estimate_loss
    obs,             \* what this run has done so far
    run              \* index of the current run of the program

modelVars == <<training, att>>
genVars == <<idx, ctx0, max_new_tokens, it, gpc>>
batchVars == <<DATA, split, ix, xb, yb, bpc>>
blockVars == <<cfg, blocks, cpc>>
mainVars == <<args, pc, err, files, ckpt, params, optim_steps, epoch, loss, i, est, obs, run>>
vars == <<modelVars, genVars, batchVars, blockVars, mainVars>>

Min(a, b) == IF a < b THEN a ELSE b
Max(a, b) == IF a > b THEN a ELSE b

(***************************************************************************)
(* Python slicing s[a:b] and s[a:] on a sequence (0-based, clipped to the  *)
(* length, a negative start counted from the end).                         *)
(***************************************************************************)
PyStart(s, a) == IF a < 0 THEN Max(Len(s) + a, 0) ELSE Min(a, Len(s))
PySlice(s, a, b) == SubSeq(s, PyStart(s, a) + 1, PyStart(s, b))
PySliceFrom(s, a) == SubSeq(s, PyStart(s, a) + 1, Len(s))

(***************************************************************************)
(* Head: the causal mask buffer and forward.                               *)
(***************************************************************************)
\* a mask without its diagonal, as torch.tril(..., diagonal=-1) would build it
tril_NoDiagonal == [p \in (0 .. SEQ_LEN - 1) \X (0 .. SEQ_LEN - 1) |-> IF p[2] < p[1] THEN 1 ELSE 0]

\* torch.tril(torch.ones(SEQ_LEN, SEQ_LEN)), 0-based
tril == [p \in (0 .. SEQ_LEN - 1) \X (0 .. SEQ_LEN - 1) |-> IF p[2] <= p[1] THEN 1 ELSE 0]

Square(T) == (0 .. T - 1) \X (0 .. T - 1)

\* wei.masked_fill(self.tril[:T, :T] == 0, float('-inf')) on finite scores
MaskedFill(T) == [p \in Square(T) |-> IF tril[p] = 0 THEN "-inf" ELSE "fin"]

\* F.softmax(wei, dim=-1): exp(-inf) = 0; a row with no finite score is 0/0
Softmax(T, sc) ==
    [p \in Square(T) |->
        IF \A j \in 0 .. T - 1 : sc[<<p[1], j>>] = "-inf" THEN "nan"
        ELSE IF sc[p] = "-inf" THEN "zero" ELSE "pos"]

\* nn.Dropout: the identity in eval mode; in training mode every entry is
\* zeroed with probability DROPOUT or rescaled
Dropout(T, w, mode) ==
    [p \in Square(T) |-> IF mode /\ w[p] = "pos" THEN "any" ELSE w[p]]

\* Head.forward on an input of T <= SEQ_LEN positions
HeadForward(T, mode) ==
    LET sc == MaskedFill(T)
        sm == Softmax(T, sc)
    IN  [T |-> T, scores |-> sc, softmax |-> sm, wei |-> Dropout(T, sm, mode),
         training |-> mode]

\* GPT.forward accepts T <= SEQ_LEN positions only (position_embedding_table
\* has SEQ_LEN rows and the mask is SEQ_LEN x SEQ_LEN)
ForwardOk(T) == T <= SEQ_LEN

(***************************************************************************)
(* GPT.generate, one action per loop iteration.                            *)
(***************************************************************************)
Rows == DOMAIN idx

\* generate without the crop of the context
Crop_Whole(x) == x

\* idx[:, -SEQ_LEN:]
Crop(x) == [b \in DOMAIN x |-> PySliceFrom(x[b], 0 - SEQ_LEN)]

\* the time dimension of a (B, T) tensor
TimeDim(x) == IF DOMAIN x = {} THEN 0 ELSE Len(x[1])

\* torch.cat((idx, next_idx), dim=1)
Cat(x, nxt) == [b \in DOMAIN x |-> Append(x[b], nxt[b])]

\* One iteration: crop, forward, logits[:, -1, :], softmax, multinomial, cat.
GenerateStep ==
    /\ gpc = "loop"
    /\ it < max_new_tokens
    /\ LET idx_cond == Crop(idx)
           T == TimeDim(idx_cond)
       IN  IF ~ForwardOk(T)
           THEN \* the forward pass raises
                /\ gpc' = "raised"
                /\ UNCHANGED <<idx, it, att>>
           ELSE /\ att' = <<HeadForward(T, training)>>
                /\ IF T = 0
                   THEN \* logits[:, -1, :] on an empty time dimension: IndexError
                        /\ gpc' = "raised"
                        /\ UNCHANGED <<idx, it>>
                   ELSE /\ \E next_idx \in [Rows -> Vocab] : idx' = Cat(idx, next_idx)
                        /\ it' = it + 1
                        /\ gpc' = "loop"
    /\ UNCHANGED <<training, ctx0, max_new_tokens>>

\* range(max_new_tokens) is exhausted: return idx
GenerateReturn ==
    /\ gpc = "loop"
    /\ it >= max_new_tokens
    /\ gpc' = "returned"
    /\ UNCHANGED <<training, att, idx, ctx0, max_new_tokens, it>>

(***************************************************************************)
(* Construction of the model: Head, MultiHeadAttention, FeedForward,       *)
(* Block and GPT.__init__, by the shapes of the layers they create.        *)
(***************************************************************************)
\* nn.Linear(n_in, n_out)
Linear(n_in, n_out) == [in_features |-> n_in, out_features |-> n_out]

\* Head(head_size): key, query and value map EMBED_SIZE to head_size
HeadInit(head_size) == Linear(cfg.EMBED_SIZE, head_size)

\* MultiHeadAttention(num_heads, head_size)
MultiHeadAttentionInit(num_heads, head_size) ==
    [heads |-> [h \in 1 .. num_heads |-> HeadInit(head_size)],
     proj |-> Linear(num_heads * head_size, cfg.EMBED_SIZE)]

\* FeedForward(n_embd)
FeedForwardInit(n_embd) == <<Linear(n_embd, 4 * n_embd), Linear(4 * n_embd, n_embd)>>

\* Block(num_embd, num_heads), for num_heads # 0
BlockInit(num_embd, num_heads) ==
    LET head_size == num_embd \div num_heads
    IN  [head_size |-> head_size,
         sa |-> MultiHeadAttentionInit(num_heads, head_size),
         ffwd |-> FeedForwardInit(num_embd),
         ln1 |-> num_embd,
         ln2 |-> num_embd]

\* GPT.__init__: one more Block(EMBED_SIZE, NUM_HEADS) of the NUM_LAYERS;
\* num_embd // num_heads raises ZeroDivisionError for num_heads = 0
GPTInitBlock ==
    /\ cpc = "init"
    /\ Len(blocks) < NUM_LAYERS
    /\ IF cfg.NUM_HEADS = 0
       THEN /\ cpc' = "raised"
            /\ UNCHANGED blocks
       ELSE /\ blocks' = Append(blocks, BlockInit(cfg.EMBED_SIZE, cfg.NUM_HEADS))
            /\ cpc' = "init"
    /\ UNCHANGED cfg

\* GPT.__init__ returns: the model exists
GPTInitDone ==
    /\ cpc = "init"
    /\ Len(blocks) = NUM_LAYERS
    /\ cpc' = "constructed"
    /\ UNCHANGED <<cfg, blocks>>

\* Block.forward, by widths: a Linear or LayerNorm accepts its own input
\* width only, and a residual addition needs equal widths
BlockForwardOk(blk, width) ==
    LET cat == Len(blk.sa.heads) * blk.head_size
    IN  /\ blk.ln1 = width
        /\ \A h \in DOMAIN blk.sa.heads : blk.sa.heads[h].in_features = width
        /\ blk.sa.proj.in_features = cat
        /\ blk.sa.proj.out_features = width
        /\ blk.ln2 = width
        /\ blk.ffwd[1].in_features = width
        /\ blk.ffwd[2].in_features = blk.ffwd[1].out_features
        /\ blk.ffwd[2].out_features = width

\* GPT.forward through the blocks on embeddings of width EMBED_SIZE
GPTForwardBlocks ==
    /\ cpc = "constructed"
    /\ cpc' = IF \A l \in DOMAIN blocks : BlockForwardOk(blocks[l], cfg.EMBED_SIZE)
              THEN "forward_ok" ELSE "forward_raised"
    /\ UNCHANGED <<cfg, blocks>>

(***************************************************************************)
(* get_batch of train.py.                                                  *)
(***************************************************************************)
\* a sampling bound that admits the last offset at which only inputs fit
RandintHigh_Inclusive(data) == Len(data) - SEQ_LEN + 1

\* the exclusive upper bound given to torch.randint: len(data) - SEQ_LEN
RandintHigh(data) == Len(data) - SEQ_LEN

\* the values torch.randint(high, (BATCH_SIZE,)) can return
Offsets(data) == [1 .. BATCH_SIZE -> 0 .. (RandintHigh(data) - 1)]

\* [data[i:i+SEQ_LEN] for i in ix]
Inputs(data, offs) == [b \in 1 .. BATCH_SIZE |-> PySlice(data, offs[b], offs[b] + SEQ_LEN)]

\* [data[i+1:i+1+SEQ_LEN] for i in ix]
Targets(data, offs) ==
    [b \in 1 .. BATCH_SIZE |-> PySlice(data, offs[b] + 1, offs[b] + 1 + SEQ_LEN)]

\* torch.stack accepts rows of one length only
Stackable(rows) == \A a, b \in DOMAIN rows : Len(rows[a]) = Len(rows[b])

\* get_batch(sp): torch.randint raises unless its bound is positive
GetBatch(sp) ==
    /\ split' = sp
    /\ IF RandintHigh(DATA[sp]) <= 0
       THEN /\ bpc' = "raised"
            /\ UNCHANGED <<ix, xb, yb>>
       ELSE \E offs \in Offsets(DATA[sp]) :
              /\ ix' = offs
              /\ IF Stackable(Inputs(DATA[sp], offs)) /\ Stackable(Targets(DATA[sp], offs))
                 THEN /\ xb' = Inputs(DATA[sp], offs)
                      /\ yb' = Targets(DATA[sp], offs)
                      /\ bpc' = "returned"
                 ELSE /\ bpc' = "raised"
                      /\ UNCHANGED <<xb, yb>>
    /\ UNCHANGED DATA

(***************************************************************************)
(* Values of the variables an operation does not use.                      *)
(***************************************************************************)
NoArgs == [generate |-> <<>>, load_checkpoint |-> <<>>, save_checkpoint |-> <<>>,
           epochs |-> 0, checkpoint_interval |-> 0]
NoCkpt == [epoch |-> 0, model_state_dict |-> <<>>, optimizer_state_dict |-> 0, loss |-> "inf"]
NoObs == [loaded |-> FALSE, batch |-> FALSE, step |-> FALSE, estimate |-> FALSE,
          generate |-> 0, saved |-> {}]
ModuleCfg == [EMBED_SIZE |-> EMBED_SIZE, NUM_HEADS |-> NUM_HEADS]

GenIdle ==
    /\ idx = <<>> /\ ctx0 = <<>> /\ max_new_tokens = 0 /\ it = 0 /\ gpc = "idle"
BatchIdle ==
    /\ DATA = [s \in {TRAIN, EVAL} |-> <<>>] /\ split = TRAIN
    /\ ix = <<>> /\ xb = <<>> /\ yb = <<>> /\ bpc = "idle"
BlockIdle ==
    /\ cfg = ModuleCfg /\ blocks = <<>> /\ cpc = "idle"
MainIdle ==
    /\ args = NoArgs /\ pc = "idle" /\ err = "" /\ files = {} /\ ckpt = NoCkpt
    /\ params = <<>> /\ optim_steps = 0 /\ epoch = 0 /\ loss = "inf" /\ i = 0
    /\ est = <<>> /\ obs = NoObs /\ run = 1

(***************************************************************************)
(* main of train.py, one action per step of the run.  A run starts with    *)
(* the parsed arguments; the files on disk outlive it.                     *)
(***************************************************************************)
Option(S) == {<<>>} \cup {<<v>> : v \in S}

TokenizerFile == "tokenizer/default.json"
TrainTokenized == "train_tokenized"
EvalTokenized == "eval_tokenized"
CheckpointFile == "ckpt.pt"
AbsentFile == "absent.pt"

\* what argparse can hand to main
Args ==
    [generate : Option(0 .. MaxGenerate),
     load_checkpoint : Option({CheckpointFile, AbsentFile}),
     save_checkpoint : Option({CheckpointFile}),
     epochs : 0 .. MaxEpochs,
     checkpoint_interval : 0 .. MaxInterval]

\* the token streams tokenizer.encode yields for the two data files
MainData ==
    [s \in {TRAIN, EVAL} |->
        [k \in 1 .. (IF s = TRAIN THEN SEQ_LEN + 2 ELSE SEQ_LEN + 1) |-> (k - 1) % VocabSize]]

\* get_tokenizer: loads the tokenizer file, or trains a tokenizer and saves it
GetTokenizer ==
    /\ pc = "start"
    /\ files' = files \cup {TokenizerFile}
    /\ pc' = "preprocess"
    /\ UNCHANGED <<modelVars, genVars, batchVars, blockVars>>
    /\ UNCHANGED <<args, err, ckpt, params, optim_steps, epoch, loss, i, est, obs, run>>

\* preprocess_data: loads the tokenized splits, or encodes and saves them
PreprocessData ==
    /\ pc = "preprocess"
    /\ DATA' = MainData
    /\ files' = files \cup {TrainTokenized, EvalTokenized}
    /\ pc' = "create"
    /\ UNCHANGED <<modelVars, genVars, blockVars, split, ix, xb, yb, bpc>>
    /\ UNCHANGED <<args, err, ckpt, params, optim_steps, epoch, loss, i, est, obs, run>>

\* model = GPT(...); optim = AdamW(...); epoch, loss = 0, inf
CreateModel ==
    /\ pc = "create"
    /\ blocks' = [l \in 1 .. NUM_LAYERS |-> BlockInit(cfg.EMBED_SIZE, cfg.NUM_HEADS)]
    /\ cpc' = "constructed"
    /\ training' = TRUE
    /\ params' = <<>>
    /\ optim_steps' = 0
    /\ epoch' = 0
    /\ loss' = "inf"
    /\ pc' = "load"
    /\ UNCHANGED <<att, genVars, batchVars, cfg>>
    /\ UNCHANGED <<args, err, files, ckpt, i, est, obs, run>>

\* a load step that goes on without a checkpoint when the file is absent
LoadCheckpoint_SkipAbsent ==
    /\ pc = "load"
    /\ IF args.load_checkpoint # <<>> /\ args.load_checkpoint[1] \in files
       THEN /\ params' = ckpt.model_state_dict
            /\ optim_steps' = ckpt.optimizer_state_dict
            /\ epoch' = ckpt.epoch
            /\ loss' = ckpt.loss
            /\ obs' = [obs EXCEPT !.loaded = TRUE]
       ELSE UNCHANGED <<params, optim_steps, epoch, loss, obs>>
    /\ pc' = "mode"
    /\ UNCHANGED <<modelVars, genVars, batchVars, blockVars>>
    /\ UNCHANGED <<args, err, files, ckpt, i, est, run>>

\* if args.load_checkpoint: raise unless os.path.isfile, else load_checkpoint
LoadCheckpoint ==
    /\ pc = "load"
    /\ IF args.load_checkpoint = <<>>
       THEN /\ pc' = "mode"
            /\ UNCHANGED <<err, params, optim_steps, epoch, loss, obs>>
       ELSE IF args.load_checkpoint[1] \notin files
       THEN /\ pc' = "error"
            /\ err' = "FileNotFoundError"
            /\ UNCHANGED <<params, optim_steps, epoch, loss, obs>>
       ELSE /\ params' = ckpt.model_state_dict
            /\ optim_steps' = ckpt.optimizer_state_dict
            /\ epoch' = ckpt.epoch
            /\ loss' = ckpt.loss
            /\ obs' = [obs EXCEPT !.loaded = TRUE]
            /\ pc' = "mode"
            /\ UNCHANGED err
    /\ UNCHANGED <<modelVars, genVars, batchVars, blockVars>>
    /\ UNCHANGED <<args, files, ckpt, i, est, run>>

\* the truth value of args.generate: None and 0 are false
GenerateRequested == args.generate # <<>> /\ args.generate[1] # 0

\* if args.generate: context = zeros((1,1)); m.generate(idx=context, max_new_tokens=300)
GenerateCall ==
    /\ pc = "mode"
    /\ GenerateRequested
    /\ idx' = <<<<0>>>>
    /\ ctx0' = <<<<0>>>>
    /\ max_new_tokens' = GENERATE_TOKENS
    /\ it' = 0
    /\ gpc' = "loop"
    /\ obs' = [obs EXCEPT !.generate = @ + 1]
    /\ pc' = "generating"
    /\ UNCHANGED <<modelVars, batchVars, blockVars>>
    /\ UNCHANGED <<args, err, files, ckpt, params, optim_steps, epoch, loss, i, est, run>>

\* generation ends and control falls through into the training loop
GenerateEnd_FallThrough ==
    /\ pc = "generating"
    /\ gpc \in {"returned", "raised"}
    /\ pc' = "loop"
    /\ i' = epoch
    /\ UNCHANGED <<modelVars, genVars, batchVars, blockVars>>
    /\ UNCHANGED <<args, err, files, ckpt, params, optim_steps, epoch, loss, est, obs, run>>

\* print(generate(300)); return
GenerateEnd ==
    /\ pc = "generating"
    /\ gpc \in {"returned", "raised"}
    /\ pc' = IF gpc = "returned" THEN "done" ELSE "error"
    /\ err' = IF gpc = "returned" THEN err ELSE "IndexError"
    /\ UNCHANGED <<modelVars, genVars, batchVars, blockVars>>
    /\ UNCHANGED <<args, files, ckpt, params, optim_steps, epoch, loss, i, est, obs, run>>

\* for i in range(epoch, args.epochs): the loop starts at epoch
StartTraining ==
    /\ pc = "mode"
    /\ ~GenerateRequested
    /\ i' = epoch
    /\ pc' = "loop"
    /\ UNCHANGED <<modelVars, genVars, batchVars, blockVars>>
    /\ UNCHANGED <<args, err, files, ckpt, params, optim_steps, epoch, loss, est, obs, run>>

\* range(epoch, args.epochs) is exhausted
LoopExit ==
    /\ pc = "loop"
    /\ i >= args.epochs
    /\ pc' = "done"
    /\ UNCHANGED <<modelVars, genVars, batchVars, blockVars>>
    /\ UNCHANGED <<args, err, files, ckpt, params, optim_steps, epoch, loss, i, est, obs, run>>

\* if i != epoch and i % EVAL_INTERVAL == 0
EstimateDue == i # epoch /\ i % EVAL_INTERVAL = 0

\* get_batch returned a batch the forward pass accepts
BatchForwardOk ==
    /\ bpc' = "returned"
    /\ ForwardOk(TimeDim(xb'))

\* model(xb, yb): the forward pass on the batch just sampled
ForwardBatch == att' = <<HeadForward(TimeDim(xb'), training)>>

\* estimate_loss: model.eval()
EstimateLossBegin ==
    /\ pc = "loop"
    /\ i < args.epochs
    /\ EstimateDue
    /\ training' = FALSE
    /\ est' = <<[s |-> 1, k |-> 0]>>
    /\ obs' = [obs EXCEPT !.estimate = TRUE]
    /\ pc' = "estimate"
    /\ UNCHANGED <<att, genVars, batchVars, blockVars>>
    /\ UNCHANGED <<args, err, files, ckpt, params, optim_steps, epoch, loss, i, run>>

\* estimate_loss: one of the EVAL_ITERS batches of a split
EstimateLossIter ==
    /\ pc = "estimate"
    /\ est[1].s <= Len(Splits)
    /\ GetBatch(Splits[est[1].s])
    /\ IF BatchForwardOk
       THEN /\ ForwardBatch
            /\ est' = IF est[1].k + 1 < EVAL_ITERS
                      THEN <<[s |-> est[1].s, k |-> est[1].k + 1]>>
                      ELSE <<[s |-> est[1].s + 1, k |-> 0]>>
            /\ UNCHANGED <<pc, err>>
       ELSE /\ pc' = "error"
            /\ err' = "RuntimeError"
            /\ UNCHANGED <<att, est>>
    /\ obs' = [obs EXCEPT !.batch = TRUE]
    /\ UNCHANGED <<training, genVars, blockVars>>
    /\ UNCHANGED <<args, files, ckpt, params, optim_steps, epoch, loss, i, run>>

\* estimate_loss: model.train(); return out
EstimateLossEnd ==
    /\ pc = "estimate"
    /\ est[1].s > Len(Splits)
    /\ training' = TRUE
    /\ est' = <<>>
    /\ pc' = "body"
    /\ UNCHANGED <<att, genVars, batchVars, blockVars>>
    /\ UNCHANGED <<args, err, files, ckpt, params, optim_steps, epoch, loss, i, obs, run>>

\* a checkpoint condition that never saves at the starting epoch
SaveDue_NeverAtStart(j) ==
    /\ j # epoch
    /\ \/ j % args.checkpoint_interval = 0
       \/ j = args.epochs - 1

\* (i != epoch and i % args.checkpoint_interval == 0) or i == args.epochs-1,
\* where the interval is not zero or i == epoch
SaveDue(j) ==
    \/ j # epoch /\ j % args.checkpoint_interval = 0
    \/ j = args.epochs - 1

\* the record save_checkpoint writes
Checkpoint(e, l) ==
    [epoch |-> e, model_state_dict |-> params', optimizer_state_dict |-> optim_steps', loss |-> l]

\* One iteration of the loop after the evaluation: get_batch, forward,
\* zero_grad, backward, optim.step, then the checkpoint condition and
\* save_checkpoint.  i % 0 raises ZeroDivisionError; torch.save raises
\* when no --save-checkpoint path was given.
TrainStep ==
    /\ \/ pc = "body"
       \/ pc = "loop" /\ i < args.epochs /\ ~EstimateDue
    /\ GetBatch(TRAIN)
    /\ obs' = [obs EXCEPT !.batch = TRUE,
                          !.step = BatchForwardOk,
                          !.saved = IF /\ BatchForwardOk
                                       /\ ~(i # epoch /\ args.checkpoint_interval = 0)
                                       /\ SaveDue(i)
                                       /\ args.save_checkpoint # <<>>
                                    THEN @ \cup {i} ELSE @]
    /\ IF ~BatchForwardOk
       THEN /\ pc' = "error"
            /\ err' = "RuntimeError"
            /\ UNCHANGED <<att, loss, params, optim_steps, files, ckpt, i>>
       ELSE /\ ForwardBatch
            /\ loss' = "fin"
            /\ params' = Append(params, i)
            /\ optim_steps' = optim_steps + 1
            /\ IF i # epoch /\ args.checkpoint_interval = 0
               THEN /\ pc' = "error"
                    /\ err' = "ZeroDivisionError"
                    /\ UNCHANGED <<files, ckpt, i>>
               ELSE IF ~SaveDue(i)
               THEN /\ pc' = "loop"
                    /\ i' = i + 1
                    /\ UNCHANGED <<err, files, ckpt>>
               ELSE IF args.save_checkpoint = <<>>
               THEN /\ pc' = "error"
                    /\ err' = "AttributeError"
                    /\ UNCHANGED <<files, ckpt, i>>
               ELSE /\ files' = files \cup {args.save_checkpoint[1]}
                    /\ ckpt' = Checkpoint(i, "fin")
                    /\ pc' = "loop"
                    /\ i' = i + 1
                    /\ UNCHANGED err
    /\ UNCHANGED <<training, genVars, blockVars>>
    /\ UNCHANGED <<args, epoch, est, run>>

\* the process ends, normally or on the exception: its memory is gone, the
\* files stay
Exit ==
    /\ pc \in {"done", "error"}
    /\ pc' = "exited"
    /\ args' = NoArgs
    /\ err' = ""
    /\ params' = <<>> /\ optim_steps' = 0 /\ epoch' = 0 /\ loss' = "inf" /\ i' = 0
    /\ est' = <<>> /\ obs' = NoObs
    /\ training' = TRUE /\ att' = <<>>
    /\ idx' = <<>> /\ ctx0' = <<>> /\ max_new_tokens' = 0 /\ it' = 0 /\ gpc' = "idle"
    /\ DATA' = [s \in {TRAIN, EVAL} |-> <<>>] /\ split' = TRAIN
    /\ ix' = <<>> /\ xb' = <<>> /\ yb' = <<>> /\ bpc' = "idle"
    /\ blocks' = <<>> /\ cpc' = "idle"
    /\ UNCHANGED <<cfg, files, ckpt, run>>

\* the program is run again, with new arguments, on the files the earlier
\* runs left
Rerun ==
    /\ pc = "exited"
    /\ run < MaxRuns
    /\ run' = run + 1
    /\ args' \in Args
    /\ pc' = "start"
    /\ UNCHANGED <<modelVars, genVars, batchVars, blockVars>>
    /\ UNCHANGED <<err, files, ckpt, params, optim_steps, epoch, loss, i, est, obs>>

InitMain ==
    /\ args \in Args
    /\ pc = "start" /\ err = "" /\ files = {} /\ ckpt = NoCkpt
    /\ params = <<>> /\ optim_steps = 0 /\ epoch = 0 /\ loss = "inf" /\ i = 0
    /\ est = <<>> /\ obs = NoObs /\ run = 1
    /\ training = TRUE /\ att = <<>>
    /\ GenIdle /\ BatchIdle /\ BlockIdle

NextMain ==
    \/ GetTokenizer
    \/ PreprocessData
    \/ CreateModel
    \/ LoadCheckpoint
    \/ GenerateCall
    \/ GenerateStep /\ pc = "generating" /\ UNCHANGED <<batchVars, blockVars, mainVars>>
    \/ GenerateReturn /\ pc = "generating" /\ UNCHANGED <<batchVars, blockVars, mainVars>>
    \/ GenerateEnd
    \/ StartTraining
    \/ LoopExit
    \/ EstimateLossBegin
    \/ EstimateLossIter
    \/ EstimateLossEnd
    \/ TrainStep
    \/ Exit
    \/ Rerun

SpecMain == InitMain /\ [][NextMain]_vars

(***************************************************************************)
(* GPT.generate as a function of its arguments: every context shape        *)
(* (B, T) with 1 <= B <= MaxRows and 0 <= T <= MaxContext, every           *)
(* max_new_tokens up to MaxNewTokens, in either mode of the model.         *)
(***************************************************************************)
Context(B, T) == [b \in 1 .. B |-> [k \in 1 .. T |-> (k + b) % VocabSize]]

InitGenerate ==
    /\ training \in BOOLEAN
    /\ att = <<>>
    /\ \E B \in 1 .. MaxRows, T \in 0 .. MaxContext :
          /\ idx = Context(B, T)
          /\ ctx0 = Context(B, T)
    /\ max_new_tokens \in 0 .. MaxNewTokens
    /\ it = 0
    /\ gpc = "loop"
    /\ BatchIdle /\ BlockIdle /\ MainIdle

NextGenerate ==
    \/ GenerateStep /\ UNCHANGED <<batchVars, blockVars, mainVars>>
    \/ GenerateReturn /\ UNCHANGED <<batchVars, blockVars, mainVars>>

SpecGenerate == InitGenerate /\ [][NextGenerate]_vars

(***************************************************************************)
(* get_batch as a function of the token streams: DATA holds, per split, a  *)
(* stream of distinct tokens of any length up to MaxStream.                *)
(***************************************************************************)
Stream(L, first) == [k \in 1 .. L |-> first + k - 1]

InitBatch ==
    /\ \E L1 \in 0 .. MaxStream, L2 \in 0 .. MaxStream :
          DATA = [s \in {TRAIN, EVAL} |-> IF s = TRAIN THEN Stream(L1, 0) ELSE Stream(L2, L1)]
    /\ split \in {TRAIN, EVAL}
    /\ ix = <<>> /\ xb = <<>> /\ yb = <<>>
    /\ bpc = "call"
    /\ training = TRUE /\ att = <<>>
    /\ GenIdle /\ BlockIdle /\ MainIdle

GetBatchCall ==
    /\ bpc = "call"
    /\ GetBatch(split)
    /\ UNCHANGED <<modelVars, genVars, blockVars, mainVars>>

NextBatch == GetBatchCall

SpecBatch == InitBatch /\ [][NextBatch]_vars

(***************************************************************************)
(* Construction under every configuration: embedding widths 1 .. MaxEmbed  *)
(* and head counts 0 .. MaxHeads in the place of EMBED_SIZE and NUM_HEADS, *)
(* with at most as many heads as the embedding is wide (every head has at  *)
(* least one feature).                                                     *)
(***************************************************************************)
InitBlock ==
    /\ cfg \in {c \in [EMBED_SIZE : 1 .. MaxEmbed, NUM_HEADS : 0 .. MaxHeads] :
                    c.NUM_HEADS <= c.EMBED_SIZE}
    /\ blocks = <<>>
    /\ cpc = "init"
    /\ training = TRUE /\ att = <<>>
    /\ GenIdle /\ BatchIdle /\ MainIdle

NextBlock ==
    \/ GPTInitBlock /\ UNCHANGED <<modelVars, genVars, batchVars, mainVars>>
    \/ GPTInitDone /\ UNCHANGED <<modelVars, genVars, batchVars, mainVars>>
    \/ GPTForwardBlocks /\ UNCHANGED <<modelVars, genVars, batchVars, mainVars>>

SpecBlock == InitBlock /\ [][NextBlock]_vars

(***************************************************************************)
(* C1.  As claimed: generate never raises, and it returns after exactly    *)
(* max_new_tokens iterations a context that is, in every row, the initial  *)
(* context followed by max_new_tokens new tokens, for every initial        *)
(* context length.                                                         *)
(***************************************************************************)
ReturnsExtended ==
    /\ it = max_new_tokens
    /\ DOMAIN idx = DOMAIN ctx0
    /\ \A b \in DOMAIN ctx0 :
          /\ Len(idx[b]) = Len(ctx0[b]) + max_new_tokens
          /\ SubSeq(idx[b], 1, Len(ctx0[b])) = ctx0[b]

C1_AsClaimed ==
    /\ gpc # "raised"
    /\ gpc = "returned" => ReturnsExtended

(***************************************************************************)
(* C1, amended.  For every initial context of at least one token per row   *)
(* (and for an empty context when max_new_tokens = 0) generate returns,    *)
(* after exactly max_new_tokens iterations, the initial context followed   *)
(* by max_new_tokens new tokens in every row, also when the context is     *)
(* longer than SEQ_LEN: the loop counter never passes max_new_tokens, the  *)
(* loop can always take its next iteration or return, and it raises only   *)
(* on an empty context with max_new_tokens >= 1, in its first iteration,   *)
(* having appended nothing.                                                *)
(***************************************************************************)
C1_GenerateExtends ==
    /\ it <= max_new_tokens
    /\ gpc = "loop" => ENABLED (GenerateStep \/ GenerateReturn)
    /\ gpc = "returned" => ReturnsExtended
    /\ gpc = "raised" =>
          /\ TimeDim(ctx0) = 0
          /\ max_new_tokens >= 1
          /\ it = 0
          /\ idx = ctx0

C1_Witness ==
    /\ gpc = "returned"
    /\ max_new_tokens >= 2
    /\ Cardinality(DOMAIN ctx0) >= 2
    /\ TimeDim(ctx0) > SEQ_LEN

(***************************************************************************)
(* C7.  After every Head.forward on T >= 1 positions (T <= SEQ_LEN): a     *)
(* pair (i, j) with j > i has score -inf and weight exactly zero, before   *)
(* and after dropout; a pair with j <= i keeps its finite score; so no     *)
(* row is entirely masked and no weight is NaN.                            *)
(***************************************************************************)
C7_CausalMask ==
    (att # <<>> /\ att[1].T >= 1) =>
        LET a == att[1] IN
        /\ a.T <= SEQ_LEN
        /\ \A q \in 0 .. a.T - 1 :
              /\ \A j \in 0 .. a.T - 1 :
                    /\ j > q => /\ a.scores[<<q, j>>] = "-inf"
                                /\ a.softmax[<<q, j>>] = "zero"
                                /\ a.wei[<<q, j>>] = "zero"
                    /\ j <= q => /\ a.scores[<<q, j>>] = "fin"
                                 /\ a.softmax[<<q, j>>] = "pos"
              /\ a.scores[<<q, q>>] = "fin"
              /\ \E j \in 0 .. a.T - 1 : a.scores[<<q, j>>] # "-inf"

C7_Witness ==
    /\ att # <<>>
    /\ att[1].T = SEQ_LEN
    /\ att[1].T >= 2
    /\ att[1].softmax[<<0, 1>>] = "zero"

(***************************************************************************)
(* C4.  get_batch on a stream longer than SEQ_LEN returns a batch, and for *)
(* every row b with sampled offset s: s + SEQ_LEN + 1 <= len(stream),      *)
(* inputs[b] and targets[b] have exactly SEQ_LEN tokens, inputs[b][t] is   *)
(* stream[s + t], targets[b][t] is stream[s + 1 + t], and targets[b][t]    *)
(* is inputs[b][t + 1] for t < SEQ_LEN - 1.                                *)
(***************************************************************************)
C4_BatchWindows ==
    (bpc # "call" /\ bpc # "idle" /\ Len(DATA[split]) > SEQ_LEN) =>
        /\ bpc = "returned"
        /\ DOMAIN ix = 1 .. BATCH_SIZE
        /\ DOMAIN xb = 1 .. BATCH_SIZE
        /\ DOMAIN yb = 1 .. BATCH_SIZE
        /\ \A b \in 1 .. BATCH_SIZE :
              /\ ix[b] >= 0
              /\ ix[b] + SEQ_LEN + 1 <= Len(DATA[split])
              /\ Len(xb[b]) = SEQ_LEN
              /\ Len(yb[b]) = SEQ_LEN
              /\ \A t \in 1 .. SEQ_LEN :
                    /\ xb[b][t] = DATA[split][ix[b] + t]
                    /\ yb[b][t] = DATA[split][ix[b] + t + 1]
              /\ \A t \in 1 .. SEQ_LEN - 1 : yb[b][t] = xb[b][t + 1]

C4_Witness ==
    /\ bpc = "returned"
    /\ Len(DATA[split]) > SEQ_LEN
    /\ \E a, b \in 1 .. BATCH_SIZE :
          /\ ix[a] = 0
          /\ ix[b] > 0
          /\ ix[b] + SEQ_LEN + 1 = Len(DATA[split])

(***************************************************************************)
(* C6.  As claimed: the model is constructed only under a configuration    *)
(* whose embedding width is a multiple of its head count; any other        *)
(* configuration is rejected during construction.                          *)
(***************************************************************************)
C6_AsClaimed ==
    cpc \in {"constructed", "forward_ok", "forward_raised"} =>
        /\ cfg.NUM_HEADS # 0
        /\ cfg.EMBED_SIZE % cfg.NUM_HEADS = 0

(***************************************************************************)
(* The epochs whose loop iteration this run has completed, and what the    *)
(* claims call a multiple of the checkpoint interval.                      *)
(***************************************************************************)
Completed == epoch .. (i - 1)
IntervalDivides(j) ==
    IF args.checkpoint_interval = 0 THEN j = 0 ELSE j % args.checkpoint_interval = 0
MaxOf(S) == CHOOSE m \in S : \A n \in S : n <= m

(***************************************************************************)
(* C2.  As claimed: in the training loop a checkpoint is saved at every    *)
(* completed epoch that is a multiple of the interval and at the final     *)
(* epoch epochs-1, and never at the starting epoch, also when the starting *)
(* epoch is the final epoch.                                               *)
(***************************************************************************)
C2_AsClaimed ==
    ~GenerateRequested =>
        /\ \A j \in Completed :
              (j # epoch /\ IntervalDivides(j)) => j \in obs.saved
        /\ (args.epochs - 1) \in Completed => (args.epochs - 1) \in obs.saved
        /\ epoch \notin obs.saved

(***************************************************************************)
(* C2, amended.  In the training loop over i from the starting epoch to    *)
(* epochs-1, a checkpoint is written at a completed epoch i exactly when   *)
(* (i is not the starting epoch and i is a multiple of the interval) or    *)
(* i = epochs-1: at the final epoch always, also when it is the starting   *)
(* epoch, and at the starting epoch in that case only.  The file then      *)
(* holds the record of the last epoch saved.  (An iteration that raises,   *)
(* on interval 0 or on a missing save path, is not completed.)             *)
(***************************************************************************)
C2_CheckpointEpochs ==
    ~GenerateRequested =>
        /\ obs.saved \subseteq Completed
        /\ \A j \in Completed :
              j \in obs.saved <=>
                  \/ j # epoch /\ IntervalDivides(j)
                  \/ j = args.epochs - 1
        /\ epoch \in obs.saved => epoch = args.epochs - 1
        /\ obs.saved # {} =>
              /\ CheckpointFile \in files
              /\ ckpt.epoch = MaxOf(obs.saved)

C2_Witness ==
    /\ pc = "done"
    /\ obs.loaded
    /\ epoch > 0
    /\ epoch = args.epochs - 1
    /\ epoch \in obs.saved

(***************************************************************************)
(* C3.  A run given a load-checkpoint path at which no file exists gets no *)
(* further than the load step, where it ends with FileNotFoundError: it    *)
(* makes no forward pass, samples no batch, takes no optimizer step, runs  *)
(* no loss estimation, generates nothing, writes no checkpoint, and its    *)
(* model and optimizer state stay as constructed.                          *)
(***************************************************************************)
CheckpointMissing ==
    /\ args.load_checkpoint # <<>>
    /\ args.load_checkpoint[1] \notin files

C3_MissingCheckpointFatal ==
    CheckpointMissing =>
        /\ pc \in {"start", "preprocess", "create", "load", "error"}
        /\ pc = "error" => err = "FileNotFoundError"
        /\ att = <<>>
        /\ obs = NoObs
        /\ gpc = "idle"
        /\ bpc = "idle"
        /\ params = <<>>
        /\ optim_steps = 0
        /\ epoch = 0
        /\ loss = "inf"

C3_Witness ==
    /\ CheckpointMissing
    /\ pc = "error"
    /\ err = "FileNotFoundError"
    /\ cpc = "constructed"

(***************************************************************************)
(* C5.  A run whose generate argument is set (and not 0) never enters the  *)
(* training loop: it samples no batch, takes no optimizer step, runs no    *)
(* loss estimation and saves no checkpoint; generate is called at most     *)
(* once, on the context [[0]] of one row and one token, and a run that     *)
(* completes has called it exactly once.                                   *)
(***************************************************************************)
C5_GenerateOnly ==
    GenerateRequested =>
        /\ pc \notin {"loop", "estimate", "body"}
        /\ ~obs.batch
        /\ ~obs.step
        /\ ~obs.estimate
        /\ obs.saved = {}
        /\ bpc = "idle"
        /\ est = <<>>
        /\ obs.generate <= 1
        /\ gpc # "idle" => (obs.generate = 1 /\ ctx0 = <<<<0>>>>)
        /\ pc = "generating" => gpc # "idle"
        /\ pc = "done" => (obs.generate = 1 /\ gpc = "returned")

C5_Witness ==
    /\ GenerateRequested
    /\ pc = "done"
    /\ gpc = "returned"
    /\ args.epochs > 0
    /\ Len(idx[1]) > 1

(***************************************************************************)
(* C8.  As claimed: a run with the generate argument set to N > 0 calls    *)
(* generate with max_new_tokens = N.                                       *)
(***************************************************************************)
C8_AsClaimed ==
    (GenerateRequested /\ gpc # "idle") => max_new_tokens = args.generate[1]

(***************************************************************************)
(* C9.  As claimed: every forward pass made by generate in a generation    *)
(* run finds the model in non-training mode, so that dropout is the        *)
(* identity; and every optimizer step is taken in training mode, also      *)
(* after a loss estimation.                                                *)
(***************************************************************************)
C9_AsClaimed ==
    /\ (pc = "generating" /\ att # <<>>) =>
          /\ ~att[1].training
          /\ att[1].wei = att[1].softmax
    /\ pc \in {"loop", "body"} => training
    /\ (pc = "loop" /\ obs.step) => (att # <<>> /\ att[1].training)

(***************************************************************************)
(* C10.  As claimed: a run that loads a checkpoint saved at epoch e and    *)
(* trains to its epoch budget E > e ends with parameters produced by       *)
(* exactly one optimizer step per epoch index 0 .. E-1, in order, as an    *)
(* uninterrupted run to E would.                                           *)
(***************************************************************************)
C10_AsClaimed ==
    (pc = "done" /\ obs.loaded /\ ~GenerateRequested /\ args.epochs > epoch) =>
        params = [k \in 1 .. args.epochs |-> k - 1]

====
